---- MODULE Spec2Model ----
(***************************************************************************)
(* A model of src/TemplateWriter.js: the template path cache               *)
(* (_createTemplate), the build set builder (_addToTemplateMap,            *)
(* _createTemplateMap), the generation scheduler (generateTemplates,       *)
(* _generateTemplate) and the two entry points write() and getJSON().      *)
(*                                                                         *)
(* Promises are modelled by their state (pending, fulfilled, rejected).    *)
(* Every stretch of synchronous JavaScript between two suspension points   *)
(* is one action; the reaction jobs of Promise.all are a FIFO queue.       *)
(***************************************************************************)
EXTENDS Integers, Sequences, FiniteSets

VARIABLES
    isVerbose,              \* this.isVerbose
    isDryRun,               \* this.isDryRun
    writeCount,             \* this.writeCount
    skippedCount,           \* this.skippedCount
    isRunInitialBuild,      \* this.isRunInitialBuild
    incrementalFile,        \* this.incrementalFile (NoFile when unset / null)
    templatePathCache,      \* this._templatePathCache: path key -> handle id, 0 when absent
    handles,                \* the Template instances ever constructed, by id
    pc,                     \* position of the running write() / getJSON()
    op,                     \* which entry point is running: "write", "getJSON" or "none"
    paths,                  \* the path collection of the run (_getAllPaths)
    idx,                    \* position of the for-loop of _addToTemplateMap in paths
    isIncrementalFileAFullTemplate,     \* local of _addToTemplateMap
    isIncrementalFileAPassthroughCopy,  \* local of _addToTemplateMap
    relevantToDeletions,    \* local of _addToTemplateMap: a set of paths
    templateMap,            \* this.templateMap: handle ids in the order they were added
    usedTemplateContentTooEarlyMap,     \* local of generateTemplates: map entries
    promises,               \* the array generateTemplates returns: one record per task
    copy,                   \* the promise of writePassthroughCopy
    reactions,              \* reaction jobs of Promise.all waiting to run (0 = copy, i = promises[i])
    aggregate,              \* the promise write() / getJSON() hands to the caller
    opsLeft,                \* environment: what is left of the caller's budget of calls
    faults,                 \* environment: free completion order, and failures, or neither
    lastCreate,             \* history: the last _createTemplate call and what it returned
    runStart,               \* history: skippedCount when the run began
    classified,             \* history: how the loop classified each path of the run
    lastCall,               \* history: the method the caller called last ("setter" for a setter)
    thisRun,                \* history: what came before the run, and writeCount when it began
    prevRun,                \* history: the full write() run that finished last, if no other
                            \* run and no setter has come since
    trace                   \* history: the calls the run has made on its collaborators, in order

vars == << isVerbose, isDryRun, writeCount, skippedCount, isRunInitialBuild,
           incrementalFile, templatePathCache, handles, pc, op, paths, idx,
           isIncrementalFileAFullTemplate, isIncrementalFileAPassthroughCopy,
           relevantToDeletions, templateMap, usedTemplateContentTooEarlyMap,
           promises, copy, reactions, aggregate, opsLeft, faults,
           lastCreate, runStart, classified, lastCall, thisRun, prevRun, trace >>

writerVars == << isVerbose, isDryRun, writeCount, skippedCount, isRunInitialBuild,
                 incrementalFile, templatePathCache, handles >>
mapVars == << paths, idx, isIncrementalFileAFullTemplate,
              isIncrementalFileAPassthroughCopy, relevantToDeletions, templateMap >>
genVars == << usedTemplateContentTooEarlyMap, promises, copy, reactions, aggregate >>
histVars == << lastCreate, runStart, classified >>
envVars == << opsLeft, faults >>
logVars == << lastCall, thisRun, prevRun, trace >>

----
\* Bounds of the model.

\* Number of template files (files with a render engine) in the input directory.
MaxTemplates == 2
\* The caller's budget of calls on the writer in one behaviour: a run (write,
\* getJSON) takes two of it; a setter, restart or a direct _createTemplate call
\* takes one.
MaxOps == 5

----
\* Paths.  A path string is modelled by its parse: whether it starts with "./",
\* and which file it names.  File 0 is an asset without a render engine
\* (an image, say); files 1..MaxTemplates are templates.

Files == 0..MaxTemplates

Dotted(f) == [dotSlash |-> TRUE, file |-> f]

Bare(f) == [dotSlash |-> FALSE, file |-> f]

\* The value of an unset incrementalFile (undefined or null): falsy in JavaScript.
NoFile == [dotSlash |-> FALSE, file |-> -1]

\* Every string a caller passes as a path.
PathKeys == {Dotted(f) : f \in Files} \cup {Bare(f) : f \in Files}

\* TemplatePath.stripLeadingDotSlash: removes one leading "./".
stripLeadingDotSlash(path) == [path EXCEPT !.dotSlash = FALSE]

\* extensionMap.hasEngine(path): by the file's extension.
hasEngine(path) == path.file >= 1

\* eleventyFiles.getFiles(): the listing is normalised (leading "./") and ordered.
\* The input directory holds the asset and the first n templates.
Listing(n) == << Dotted(0) >> \o [i \in 1..n |-> Dotted(i)]

\* All templates are there, or the last one is not there (yet, or any more).
Listings == {Listing(n) : n \in {MaxTemplates - 1, MaxTemplates}}

----
\* Template handles (class Template, used through its methods).

CacheTypes == {"data", "read", "render"}

\* new Template(path, ...): nothing cached, no render override.
NewTemplate(path) ==
    [inputPath |-> path, data |-> FALSE, read |-> FALSE, render |-> FALSE,
     isDryRun |-> FALSE, isVerbose |-> TRUE, dryRunViaIncremental |-> FALSE,
     renderableOverride |-> "undefined", writeCount |-> 0]

\* tmpl.setDryRun(isDryRun)
setDryRun(h, v) == [h EXCEPT !.isDryRun = v]

\* tmpl.setIsVerbose(isVerbose)
setIsVerbose(h, v) == [h EXCEPT !.isVerbose = v]

\* tmpl.reset(): the per-run reset of the handle's counters.
reset(h) == [h EXCEPT !.writeCount = 0]

\* tmpl.resetCaches(types): clears the sub-caches named in types, and only those.
resetCaches(h, types) ==
    [h EXCEPT !.data = IF "data" \in types THEN FALSE ELSE @,
              !.read = IF "read" \in types THEN FALSE ELSE @,
              !.render = IF "render" \in types THEN FALSE ELSE @]

\* tmpl.resetCaches() without arguments: every sub-cache.
resetAllCaches(h) == resetCaches(h, CacheTypes)

\* tmpl.setRenderableOverride(v): v is "undefined" (render enabled) or "false".
setRenderableOverride(h, v) == [h EXCEPT !.renderableOverride = v]

\* tmpl.setDryRunViaIncremental()
setDryRunViaIncremental(h) == [h EXCEPT !.dryRunViaIncremental = TRUE]

\* templateMap.add(tmpl) computes the data cascade of the template: it reads
\* the file and fills the data cache.
dataCascade(h) == [h EXCEPT !.data = TRUE, !.read = TRUE]

\* tmpl.generateMapEntry succeeded: the content is rendered, and one page is
\* written unless the handle is in dry-run mode or its render is disabled.
PagesWritten(h) ==
    IF h.isDryRun \/ h.dryRunViaIncremental \/ h.renderableOverride = "false" THEN 0 ELSE 1

generated(h) == [h EXCEPT !.render = TRUE, !.read = TRUE,
                          !.writeCount = @ + PagesWritten(h)]

----
\* TemplateWriter._createTemplate(path): the handle cached under the very string
\* path, or a new one that is then cached under it.  Either way the writer's
\* current flags are applied and the handle's per-run reset is called.
\* Returns the new cache and handle table with { template, wasCached }.
createTemplateAlwaysNew(path) ==
    LET id == Len(handles) + 1
        made == Append(handles, NewTemplate(path))
    IN [cache |-> [templatePathCache EXCEPT ![path] = id],
        handles |-> [made EXCEPT ![id] = reset(setIsVerbose(setDryRun(@, isDryRun), isVerbose))],
        template |-> id,
        wasCached |-> FALSE]

createTemplateNormalised(path) ==
    LET key == stripLeadingDotSlash(path)
        tmpl == templatePathCache[key]
        wasCached == tmpl # 0
        id == IF wasCached THEN tmpl ELSE Len(handles) + 1
        made == IF wasCached THEN handles ELSE Append(handles, NewTemplate(path))
    IN [cache |-> IF wasCached THEN templatePathCache
                  ELSE [templatePathCache EXCEPT ![key] = id],
        handles |-> [made EXCEPT ![id] = reset(setIsVerbose(setDryRun(@, isDryRun), isVerbose))],
        template |-> id,
        wasCached |-> wasCached]

createTemplateFlagsOnNew(path) ==
    LET tmpl == templatePathCache[path]
        wasCached == tmpl # 0
        id == IF wasCached THEN tmpl ELSE Len(handles) + 1
        made == IF wasCached THEN handles ELSE Append(handles, NewTemplate(path))
    IN [cache |-> IF wasCached THEN templatePathCache
                  ELSE [templatePathCache EXCEPT ![path] = id],
        handles |-> IF wasCached THEN made
                    ELSE [made EXCEPT ![id] = reset(setIsVerbose(setDryRun(@, isDryRun), isVerbose))],
        template |-> id,
        wasCached |-> wasCached]

createTemplate(path) ==
    LET tmpl == templatePathCache[path]
        wasCached == tmpl # 0
        id == IF wasCached THEN tmpl ELSE Len(handles) + 1
        made == IF wasCached THEN handles ELSE Append(handles, NewTemplate(path))
    IN [cache |-> IF wasCached THEN templatePathCache
                  ELSE [templatePathCache EXCEPT ![path] = id],
        handles |-> [made EXCEPT ![id] = reset(setIsVerbose(setDryRun(@, isDryRun), isVerbose))],
        template |-> id,
        wasCached |-> wasCached]

\* What the history variable lastCreate records of a call: its argument, its
\* result, and the cache slot of the argument before and after the call.
CreateRecord(path, c) ==
    [path |-> path, template |-> c.template, wasCached |-> c.wasCached,
     before |-> templatePathCache[path], after |-> c.cache[path]]

NoCreate == [path |-> NoFile, template |-> 0, wasCached |-> FALSE, before |-> 0, after |-> 0]

----
\* Promise values.

NoValue == [kind |-> "none", entry |-> 0, pass |-> 0]

\* The pages generateMapEntry resolves with, for map entry e.
Pages(e, p) == [kind |-> "pages", entry |-> e, pass |-> p]

\* What the first-wave catch handler returns after noting a premature entry.
Undefined(e) == [kind |-> "undefined", entry |-> e, pass |-> 1]

EleventyTemplateError(e, p) == [kind |-> "EleventyTemplateError", entry |-> e, pass |-> p]

\* What writePassthroughCopy rejects with (line 340).
CopyFailureAsTemplateError == [kind |-> "EleventyTemplateError", entry |-> 0, pass |-> 0]

EleventyPassthroughCopyError == [kind |-> "EleventyPassthroughCopyError", entry |-> 0, pass |-> 0]

CopyResult == [kind |-> "copy", entry |-> 0, pass |-> 0]

Pending == [state |-> "pending", value |-> NoValue]

Fulfilled(v) == [state |-> "fulfilled", value |-> v]

Rejected(e) == [state |-> "rejected", value |-> e]

NoPromise == [state |-> "none", value |-> NoValue]

\* The aggregate promise: pending with the values resolved so far.
NoAggregate == [state |-> "none", values |-> << >>, error |-> NoValue, remaining |-> 0]

----
\* What the history variables record.

Range(seq) == {seq[i] : i \in 1..Len(seq)}

\* A call the run makes on a collaborator (the template map, the dependency
\* graph, a template), with the path it is about (NoFile when about none).
Event(call, path) == [call |-> call, path |-> path]

\* thisRun and prevRun while there is no such run.
NoRun == [op |-> "none"]

----
\* The initial state: a TemplateWriter right after its constructor.

InitWriter ==
    /\ isVerbose = TRUE
    /\ isDryRun = FALSE
    /\ writeCount = 0
    /\ skippedCount = 0
    /\ isRunInitialBuild = TRUE
    /\ incrementalFile = NoFile
    /\ templatePathCache = [k \in PathKeys |-> 0]
    /\ handles = << >>
    /\ pc = "idle"
    /\ op = "none"
    /\ paths = << >>
    /\ idx = 0
    /\ isIncrementalFileAFullTemplate = FALSE
    /\ isIncrementalFileAPassthroughCopy = FALSE
    /\ relevantToDeletions = {}
    /\ templateMap = << >>
    /\ usedTemplateContentTooEarlyMap = << >>
    /\ promises = << >>
    /\ copy = NoPromise
    /\ reactions = << >>
    /\ aggregate = NoAggregate
    /\ lastCreate = NoCreate
    /\ runStart = 0
    /\ classified = << >>
    /\ lastCall = "none"
    /\ thisRun = NoRun
    /\ prevRun = NoRun
    /\ trace = << >>

\* Several calls on one writer, where generation and copying succeed and
\* complete in the order they were started.
Init ==
    /\ InitWriter
    /\ opsLeft = MaxOps
    /\ faults = FALSE

\* One run on a new writer, where generation and copying may fail.
InitFaults ==
    /\ InitWriter
    /\ opsLeft = 2
    /\ faults = TRUE

----
\* The setters and restart(), called between runs.

Idle == pc = "idle" /\ opsLeft > 0

restart ==
    /\ Idle
    /\ opsLeft' = opsLeft - 1
    /\ writeCount' = 0
    /\ skippedCount' = 0
    /\ UNCHANGED << isVerbose, isDryRun, isRunInitialBuild, incrementalFile,
                    templatePathCache, handles, pc, op, faults >>
    /\ lastCall' = "restart"
    /\ UNCHANGED << mapVars, genVars, histVars, thisRun, prevRun, trace >>

setVerboseOutput ==
    /\ Idle
    /\ opsLeft' = opsLeft - 1
    /\ \E v \in BOOLEAN : isVerbose' = v
    /\ UNCHANGED << isDryRun, writeCount, skippedCount, isRunInitialBuild, incrementalFile,
                    templatePathCache, handles, pc, op, faults >>
    /\ lastCall' = "setter"
    /\ prevRun' = NoRun
    /\ UNCHANGED << mapVars, genVars, histVars, thisRun, trace >>

setDryRunWriter ==
    /\ Idle
    /\ opsLeft' = opsLeft - 1
    /\ \E v \in BOOLEAN : isDryRun' = v
    /\ UNCHANGED << isVerbose, writeCount, skippedCount, isRunInitialBuild, incrementalFile,
                    templatePathCache, handles, pc, op, faults >>
    /\ lastCall' = "setter"
    /\ prevRun' = NoRun
    /\ UNCHANGED << mapVars, genVars, histVars, thisRun, trace >>

setRunInitialBuild ==
    /\ Idle
    /\ opsLeft' = opsLeft - 1
    /\ \E v \in BOOLEAN : isRunInitialBuild' = v
    /\ UNCHANGED << isVerbose, isDryRun, writeCount, skippedCount, incrementalFile,
                    templatePathCache, handles, pc, op, faults >>
    /\ lastCall' = "setter"
    /\ prevRun' = NoRun
    /\ UNCHANGED << mapVars, genVars, histVars, thisRun, trace >>

setIncrementalFile ==
    /\ Idle
    /\ opsLeft' = opsLeft - 1
    /\ \E f \in Files : incrementalFile' = Dotted(f)
    /\ UNCHANGED << isVerbose, isDryRun, writeCount, skippedCount, isRunInitialBuild,
                    templatePathCache, handles, pc, op, faults >>
    /\ lastCall' = "setter"
    /\ prevRun' = NoRun
    /\ UNCHANGED << mapVars, genVars, histVars, thisRun, trace >>

resetIncrementalFile ==
    /\ Idle
    /\ opsLeft' = opsLeft - 1
    /\ incrementalFile' = NoFile
    /\ UNCHANGED << isVerbose, isDryRun, writeCount, skippedCount, isRunInitialBuild,
                    templatePathCache, handles, pc, op, faults >>
    /\ lastCall' = "setter"
    /\ prevRun' = NoRun
    /\ UNCHANGED << mapVars, genVars, histVars, thisRun, trace >>

\* A direct call of _createTemplate(path), as the tests of the class make it,
\* with either spelling of the first template's path.
callCreateTemplate ==
    /\ Idle
    /\ \E path \in {Dotted(1), Bare(1)} :
         /\ LET c == createTemplate(path)
            IN /\ templatePathCache' = c.cache
               /\ handles' = c.handles
               /\ lastCreate' = CreateRecord(path, c)
    /\ opsLeft' = opsLeft - 1
    /\ UNCHANGED << isVerbose, isDryRun, writeCount, skippedCount, isRunInitialBuild,
                    incrementalFile, pc, op, faults, runStart, classified >>
    /\ lastCall' = "_createTemplate"
    /\ prevRun' = NoRun
    /\ UNCHANGED << mapVars, genVars, thisRun, trace >>

----
\* write() and getJSON() up to the paths: paths = await this._getAllPaths().

writeResettingCounters ==
    /\ Idle
    /\ \E listing \in Listings : paths' = listing
    /\ op' = "write"
    /\ pc' = "gotPaths"
    /\ opsLeft >= 2
    /\ opsLeft' = opsLeft - 2
    /\ writeCount' = 0
    /\ skippedCount' = 0
    /\ runStart' = 0
    /\ lastCall' = "write"
    /\ thisRun' = [op |-> "write", follows |-> lastCall, writeStart |-> 0]
    /\ UNCHANGED << isVerbose, isDryRun, isRunInitialBuild, incrementalFile,
                    templatePathCache, handles, idx, isIncrementalFileAFullTemplate,
                    isIncrementalFileAPassthroughCopy, relevantToDeletions, templateMap,
                    faults, lastCreate, classified >>
    /\ UNCHANGED << genVars, prevRun, trace >>

write ==
    /\ Idle
    /\ \E listing \in Listings : paths' = listing
    /\ op' = "write"
    /\ pc' = "gotPaths"
    /\ opsLeft >= 2
    /\ opsLeft' = opsLeft - 2
    /\ runStart' = skippedCount
    /\ UNCHANGED << writerVars, idx, isIncrementalFileAFullTemplate,
                    isIncrementalFileAPassthroughCopy, relevantToDeletions, templateMap,
                    faults, lastCreate, classified >>
    /\ lastCall' = "write"
    /\ thisRun' = [op |-> "write", follows |-> lastCall, writeStart |-> writeCount]
    /\ UNCHANGED << genVars, prevRun, trace >>

getJSON ==
    /\ Idle
    /\ \E listing \in Listings : paths' = listing
    /\ op' = "getJSON"
    /\ pc' = "gotPaths"
    /\ opsLeft >= 2
    /\ opsLeft' = opsLeft - 2
    /\ runStart' = skippedCount
    /\ UNCHANGED << writerVars, idx, isIncrementalFileAFullTemplate,
                    isIncrementalFileAPassthroughCopy, relevantToDeletions, templateMap,
                    faults, lastCreate, classified >>
    /\ lastCall' = "getJSON"
    /\ thisRun' = [op |-> "getJSON", follows |-> lastCall, writeStart |-> writeCount]
    /\ UNCHANGED << genVars, prevRun, trace >>

----
\* _addToTemplateMap, first stretch (lines 193-217), entered from write() through
\* writePassthroughCopy (which starts the copy) and generateTemplates /
\* _createTemplateMap (which makes a new TemplateMap).
\* full and pass are what eleventyFiles.isFullTemplateFile and the passthrough
\* manager's isPassthroughCopyFile answer for the changed file.

\* The calls of the pre-registration up to its await (lines 205-216).
preRegistrationTrace(wasCached) ==
    (IF wasCached THEN << Event("resetCaches", incrementalFile) >> ELSE << >>)
    \o << Event("add", incrementalFile) >>

addToTemplateMapBegin ==
    /\ pc = "gotPaths"
    /\ copy' = IF op = "write" THEN Pending ELSE NoPromise
    /\ \E full \in BOOLEAN, pass \in BOOLEAN :
         /\ incrementalFile = NoFile => ~full /\ ~pass
         /\ full => hasEngine(incrementalFile)
         /\ isIncrementalFileAFullTemplate' = full
         /\ isIncrementalFileAPassthroughCopy' = pass
         /\ IF full /\ incrementalFile # NoFile
            THEN LET c == createTemplate(incrementalFile)
                     h1 == IF c.wasCached THEN resetAllCaches(c.handles[c.template])
                           ELSE c.handles[c.template]
                     h2 == IF ~isRunInitialBuild THEN setRenderableOverride(h1, "undefined")
                           ELSE h1
                 IN /\ templatePathCache' = c.cache
                    /\ handles' = [c.handles EXCEPT ![c.template] = h2]
                    /\ lastCreate' = CreateRecord(incrementalFile, c)
                    /\ templateMap' = << c.template >>
                    /\ trace' = preRegistrationTrace(c.wasCached)
                    /\ pc' = "awaitIncremental"
            ELSE /\ templateMap' = << >>
                 /\ trace' = << >>
                 /\ pc' = "loop"
                 /\ UNCHANGED << templatePathCache, handles, lastCreate >>
    /\ relevantToDeletions' = {}
    /\ idx' = 1
    /\ classified' = << >>
    /\ UNCHANGED << isVerbose, isDryRun, writeCount, skippedCount, isRunInitialBuild,
                    incrementalFile, op, paths, opsLeft, faults, runStart,
                    usedTemplateContentTooEarlyMap, promises, reactions, aggregate,
                    lastCall, thisRun, prevRun >>

\* The sets of paths setupDependencyGraphChangesForIncrementalFile can return:
\* the dependency graph names its nodes without the leading "./".
DeletionSets == {{}} \cup {{Bare(f)} : f \in 1..MaxTemplates}

\* The calls of the pre-registration from its await on (lines 217-225): p has
\* resolved, then the two calls on the dependency graph.
incrementalDoneTraceWithoutGraph ==
    << Event("added", incrementalFile),
       Event("setupDependencyGraphChangesForIncrementalFile", incrementalFile) >>

incrementalDoneTrace ==
    << Event("added", incrementalFile),
       Event("setupDependencyGraphChangesForIncrementalFile", incrementalFile),
       Event("addToGlobalDependencyGraph", NoFile) >>

\* _addToTemplateMap after "await p" (lines 218-226): the changed template's data
\* cascade is there; the dependency graph says which templates the change's
\* deleted collection entries are relevant to, and is updated.
addToTemplateMapIncrementalDone ==
    /\ pc = "awaitIncremental"
    /\ trace' = trace \o incrementalDoneTrace
    /\ handles' = [handles EXCEPT ![templateMap[1]] = dataCascade(@)]
    /\ \E rel \in DeletionSets : relevantToDeletions' = rel
    /\ pc' = "loop"
    /\ UNCHANGED << isVerbose, isDryRun, writeCount, skippedCount, isRunInitialBuild,
                    incrementalFile, templatePathCache, op, paths, idx,
                    isIncrementalFileAFullTemplate, isIncrementalFileAPassthroughCopy,
                    templateMap, opsLeft, faults >>
    /\ UNCHANGED << genVars, histVars, lastCall, thisRun, prevRun >>

\* The relevance test of the loop (lines 260-275): the path is in the
\* relevant-to-deletions set, or the handle says the changed file is relevant to
\* it (relevant is what tmpl.isFileRelevantToThisTemplate answers).
isTemplateRelevantIgnoringDeletions(h, relevant) == relevant

isTemplateRelevant(h, relevant) ==
    stripLeadingDotSlash(h.inputPath) \in relevantToDeletions \/ relevant

\* The handle of one qualifying path after the body of the for-loop (lines 245-301).
classifyClearingRender(h, wasCached, isRelevant) ==
    IF incrementalFile = NoFile
    THEN LET h1 == IF ~isRunInitialBuild
                   THEN setRenderableOverride(h, IF wasCached THEN "undefined" ELSE "false")
                   ELSE h
         IN IF wasCached THEN resetAllCaches(h1) ELSE h1
    ELSE LET h1 == resetCaches(h, {"data", "render"})
         IN IF isRelevant
            THEN IF ~isRunInitialBuild THEN setRenderableOverride(h1, "undefined") ELSE h1
            ELSE setDryRunViaIncremental(
                    IF ~isRunInitialBuild THEN setRenderableOverride(h1, "false") ELSE h1)

classifyOverridingAlways(h, wasCached, isRelevant) ==
    IF incrementalFile = NoFile
    THEN LET h1 == setRenderableOverride(h, IF wasCached THEN "undefined" ELSE "false")
         IN IF wasCached THEN resetAllCaches(h1) ELSE h1
    ELSE IF isRelevant
         THEN setRenderableOverride(resetCaches(h, {"data", "render"}), "undefined")
         ELSE setDryRunViaIncremental(setRenderableOverride(resetCaches(h, {"data"}), "false"))

classify(h, wasCached, isRelevant) ==
    IF incrementalFile = NoFile
    THEN LET h1 == IF ~isRunInitialBuild
                   THEN setRenderableOverride(h, IF wasCached THEN "undefined" ELSE "false")
                   ELSE h
         IN IF wasCached THEN resetAllCaches(h1) ELSE h1
    ELSE IF isRelevant
         THEN LET h1 == resetCaches(h, {"data", "render"})
              IN IF ~isRunInitialBuild THEN setRenderableOverride(h1, "undefined") ELSE h1
         ELSE LET h1 == resetCaches(h, {"data"})
                  h2 == IF ~isRunInitialBuild THEN setRenderableOverride(h1, "false") ELSE h1
              IN setDryRunViaIncremental(h2)

\* this.skippedCount after the body of the for-loop (line 299).
skippedAfterUncounted(isRelevant) == skippedCount

skippedAfter(isRelevant) ==
    IF incrementalFile # NoFile /\ ~isRelevant THEN skippedCount + 1 ELSE skippedCount

\* Line 239: the path is the changed template, registered before the loop.
alreadyRegisteredNever(path) == FALSE

alreadyRegistered(path) == isIncrementalFileAFullTemplate /\ incrementalFile = path

\* The calls of one iteration on a qualifying path (lines 243-304): a full run
\* resets the caches of a cached handle; an incremental run evaluates the
\* relevance of the path and resets caches; both add the handle to the map.
loopTrace(path, wasCached) ==
    (IF incrementalFile = NoFile
     THEN IF wasCached THEN << Event("resetCaches", path) >> ELSE << >>
     ELSE << Event("relevance", path), Event("resetCaches", path) >>)
    \o << Event("add", path) >>

\* One iteration of the for-loop of _addToTemplateMap (lines 228-306).
addToTemplateMapLoop ==
    /\ pc = "loop"
    /\ idx <= Len(paths)
    /\ LET path == paths[idx]
       IN IF ~hasEngine(path)
          THEN /\ classified' = Append(classified, "noEngine")
               /\ UNCHANGED << skippedCount, templatePathCache, handles, templateMap,
                               lastCreate, trace >>
          ELSE IF isIncrementalFileAPassthroughCopy
          THEN /\ skippedCount' = skippedCount + 1
               /\ classified' = Append(classified, "passthrough")
               /\ UNCHANGED << templatePathCache, handles, templateMap, lastCreate, trace >>
          ELSE IF alreadyRegistered(path)
          THEN /\ classified' = Append(classified, "preRegistered")
               /\ UNCHANGED << skippedCount, templatePathCache, handles, templateMap,
                               lastCreate, trace >>
          ELSE \E relevant \in BOOLEAN :
               LET c == createTemplate(path)
                   h == c.handles[c.template]
                   isRelevant == isTemplateRelevant(h, relevant)
               IN /\ incrementalFile = NoFile => relevant
                  /\ templatePathCache' = c.cache
                  /\ handles' = [c.handles EXCEPT
                                   ![c.template] = classify(h, c.wasCached, isRelevant)]
                  /\ lastCreate' = CreateRecord(path, c)
                  /\ skippedCount' = skippedAfter(isRelevant)
                  /\ classified' = Append(classified,
                        IF incrementalFile = NoFile THEN "full"
                        ELSE IF isRelevant THEN "relevant" ELSE "skipped")
                  /\ templateMap' = Append(templateMap, c.template)
                  /\ trace' = trace \o loopTrace(path, c.wasCached)
    /\ idx' = idx + 1
    /\ UNCHANGED << isVerbose, isDryRun, writeCount, isRunInitialBuild, incrementalFile,
                    pc, op, paths, isIncrementalFileAFullTemplate,
                    isIncrementalFileAPassthroughCopy, relevantToDeletions,
                    opsLeft, faults, runStart, lastCall, thisRun, prevRun >>
    /\ UNCHANGED genVars

\* The end of _addToTemplateMap and the rest of _createTemplateMap (lines 308-322):
\* every templateMap.add has resolved, the relationships are written to the
\* global dependency graph and the map is cached.
\* The calls of lines 308-319: the adds of the loop resolve (Promise.all), then
\* the relationships are written to the dependency graph and it is persisted.
addedInLoop ==
    LET adds == SelectSeq(trace, LAMBDA e : e.call = "add")
        awaited == Len(SelectSeq(trace, LAMBDA e : e.call = "added"))
    IN [j \in 1..(Len(adds) - awaited) |-> Event("added", adds[awaited + j].path)]

createTemplateMapTrace ==
    addedInLoop \o << Event("addToGlobalDependencyGraph", NoFile), Event("cache", NoFile) >>

createTemplateMapEnd ==
    /\ pc = "loop"
    /\ idx > Len(paths)
    /\ trace' = trace \o createTemplateMapTrace
    /\ handles' = [i \in 1..Len(handles) |->
                     IF \E j \in 1..Len(templateMap) : templateMap[j] = i
                     THEN dataCascade(handles[i]) ELSE handles[i]]
    /\ pc' = "mapCreated"
    /\ UNCHANGED << isVerbose, isDryRun, writeCount, skippedCount, isRunInitialBuild,
                    incrementalFile, templatePathCache, op, opsLeft, faults >>
    /\ UNCHANGED << mapVars, genVars, histVars, lastCall, thisRun, prevRun >>

----
\* generateTemplates after "await this._createTemplateMap" (lines 353-386): one
\* synchronous stretch.  The first loop starts a task per map entry; the second
\* loop runs right after it, over usedTemplateContentTooEarlyMap as it is then.

\* A task: this._generateTemplate(mapEntry, to).catch(...), for map entry e in
\* wave p.  retry is what generating the entry again would end with.
Task(e, p, r) == [entry |-> e, pass |-> p, state |-> "pending", value |-> NoValue, retry |-> r]

\* Lines 354-371: one first-wave task per entry of templateMap.getMap().
firstWave == [e \in 1..Len(templateMap) |-> Task(e, 1, "none")]

\* Lines 373-384: one second-wave task per entry of the list.
secondWave(used) == [j \in 1..Len(used) |-> Task(used[j].entry, 2, used[j].retry)]

\* The calls of the loops: generateMapEntry for the entry of every task.
generateTemplatesTraceThenGraph(tasks) ==
    [j \in 1..Len(tasks) |-> Event("generate", handles[templateMap[tasks[j].entry]].inputPath)]
    \o << Event("addToGlobalDependencyGraph", NoFile) >>

generateTemplatesTrace(tasks) ==
    [j \in 1..Len(tasks) |-> Event("generate", handles[templateMap[tasks[j].entry]].inputPath)]

generateTemplatesLoops ==
    /\ pc = "mapCreated"
    /\ LET used == << >>
       IN /\ usedTemplateContentTooEarlyMap' = used
          /\ promises' = firstWave \o secondWave(used)
          /\ trace' = trace \o generateTemplatesTrace(firstWave \o secondWave(used))
    /\ pc' = "returned"
    /\ UNCHANGED << writerVars, mapVars, histVars, copy, reactions, aggregate,
                    op, opsLeft, faults, lastCall, thisRun, prevRun >>

\* How a generation attempt can end, and what a second attempt would end with.
Outcomes == IF faults THEN {"ok", "premature", "error"} ELSE {"ok"}

Retries == {"ok", "premature"}

\* The promises Promise.all is given, by number: 0 is the passthrough copy
\* (write() only), i is promises[i].
Awaited == (IF op = "write" THEN << 0 >> ELSE << >>) \o [i \in 1..Len(promises) |-> i]

PromiseOf(k) == IF k = 0 THEN copy ELSE [state |-> promises[k].state, value |-> promises[k].value]

\* Without faults the environment completes the copy and then the tasks in the
\* order they were started, each after Promise.all has taken note of the last.
InOrder(k) ==
    /\ pc = "awaitAll"
    /\ reactions = << >>
    /\ k > 0 => copy.state # "pending"
    /\ \A j \in 1..Len(promises) : j < k => promises[j].state # "pending"

\* this.writeCount after the callback of _generateTemplate (line 329), for the
\* handle h as generateMapEntry leaves it.
writeCountAfterOverwriting(h) == h.writeCount

writeCountAfterStale(h) == thisRun.writeStart + h.writeCount

writeCountAfter(h) == writeCount + h.writeCount

\* A task settles: generateMapEntry resolves or rejects, then the callbacks of
\* _generateTemplate (lines 328-331) and of the catch (lines 356-369, 375-382) run.
generateTemplateSettle ==
    /\ pc \in {"returned", "awaitAll"}
    /\ \E i \in 1..Len(promises), o \in Outcomes, r \in Retries :
         LET t == promises[i]
             id == templateMap[t.entry]
             outcome == IF t.pass = 1 THEN o ELSE t.retry
             done == generated(handles[id])
         IN /\ t.state = "pending"
            /\ ~faults => InOrder(i)
            /\ outcome # "premature" => r = "ok"
            /\ IF outcome = "ok"
               THEN /\ handles' = [handles EXCEPT ![id] = done]
                    /\ writeCount' = writeCountAfter(done)
                    /\ promises' = [promises EXCEPT ![i].state = "fulfilled",
                                                    ![i].value = Pages(t.entry, t.pass)]
                    /\ UNCHANGED usedTemplateContentTooEarlyMap
               ELSE IF outcome = "premature" /\ t.pass = 1
               THEN /\ usedTemplateContentTooEarlyMap' =
                          Append(usedTemplateContentTooEarlyMap,
                                 [entry |-> t.entry, retry |-> r])
                    /\ promises' = [promises EXCEPT ![i].state = "fulfilled",
                                                    ![i].value = Undefined(t.entry),
                                                    ![i].retry = r]
                    /\ UNCHANGED << handles, writeCount >>
               ELSE /\ promises' = [promises EXCEPT
                                      ![i].state = "rejected",
                                      ![i].value = EleventyTemplateError(t.entry, t.pass)]
                    /\ UNCHANGED << handles, writeCount, usedTemplateContentTooEarlyMap >>
            /\ reactions' = IF pc = "awaitAll" THEN Append(reactions, i) ELSE reactions
    /\ UNCHANGED << isVerbose, isDryRun, skippedCount, isRunInitialBuild, incrementalFile,
                    templatePathCache, pc, op, copy, aggregate, opsLeft, faults >>
    /\ UNCHANGED << mapVars, histVars, logVars >>

\* The passthrough copy settles (lines 338-341): copyAll resolves, or rejects
\* and is wrapped.
passthroughCopySettle ==
    /\ copy.state = "pending"
    /\ ~faults => InOrder(0)
    /\ \E ok \in BOOLEAN :
         /\ ~faults => ok
         /\ copy' = IF ok THEN Fulfilled(CopyResult) ELSE Rejected(EleventyPassthroughCopyError)
    /\ reactions' = IF pc = "awaitAll" THEN Append(reactions, 0) ELSE reactions
    /\ UNCHANGED << writerVars, mapVars, histVars, logVars, usedTemplateContentTooEarlyMap,
                    promises, aggregate, pc, op, opsLeft, faults >>

\* write() / getJSON() after "await this.generateTemplates" (lines 396-400,
\* 407-417): Promise.all subscribes to every promise in order; the promises that
\* have settled already get their reaction jobs queued now, in that order.
promiseAll ==
    /\ pc = "returned"
    /\ LET n == Len(Awaited)
           settled == SelectSeq(Awaited, LAMBDA k : PromiseOf(k).state # "pending")
       IN /\ reactions' = settled
          /\ aggregate' = [state |-> IF n = 0 THEN "fulfilled" ELSE "pending",
                           values |-> [j \in 1..n |-> NoValue],
                           error |-> NoValue,
                           remaining |-> n]
    /\ pc' = "awaitAll"
    /\ UNCHANGED << writerVars, mapVars, histVars, logVars, usedTemplateContentTooEarlyMap,
                    promises, copy, op, opsLeft, faults >>

\* Position of promise k in the array given to Promise.all.
Position(k) == IF op = "write" THEN k + 1 ELSE k

\* The aggregate after the reaction job of promise k: Promise.all rejects with
\* the first rejection it is told of, and resolves once every value is in.
reactWaitingForAll(agg, k) ==
    LET p == PromiseOf(k)
        vals == IF p.state = "rejected" THEN agg.values
                ELSE [agg.values EXCEPT ![Position(k)] = p.value]
        err == IF p.state = "rejected" /\ agg.error = NoValue THEN p.value ELSE agg.error
    IN IF agg.state # "pending" THEN agg
       ELSE IF agg.remaining > 1
       THEN [agg EXCEPT !.values = vals, !.error = err, !.remaining = @ - 1]
       ELSE IF err # NoValue
       THEN [state |-> "rejected", values |-> << >>, error |-> err, remaining |-> 0]
       ELSE [state |-> "fulfilled", values |-> vals, error |-> NoValue, remaining |-> 0]

reactKeepingValues(agg, k) ==
    LET p == PromiseOf(k)
    IN IF agg.state # "pending" THEN agg
       ELSE IF p.state = "rejected"
       THEN [state |-> "rejected", values |-> agg.values, error |-> p.value, remaining |-> 0]
       ELSE IF agg.remaining = 1
       THEN [agg EXCEPT !.state = "fulfilled", !.values[Position(k)] = p.value,
                        !.remaining = 0]
       ELSE [agg EXCEPT !.values[Position(k)] = p.value, !.remaining = @ - 1]

react(agg, k) ==
    LET p == PromiseOf(k)
    IN IF agg.state # "pending" THEN agg
       ELSE IF p.state = "rejected"
       THEN [state |-> "rejected", values |-> << >>, error |-> p.value, remaining |-> 0]
       ELSE IF agg.remaining = 1
       THEN [agg EXCEPT !.state = "fulfilled", !.values[Position(k)] = p.value,
                        !.remaining = 0]
       ELSE [agg EXCEPT !.values[Position(k)] = p.value, !.remaining = @ - 1]

\* The next reaction job of Promise.all runs.
promiseAllReact ==
    /\ pc = "awaitAll"
    /\ reactions # << >>
    /\ aggregate' = react(aggregate, Head(reactions))
    /\ reactions' = Tail(reactions)
    /\ UNCHANGED << writerVars, mapVars, histVars, logVars, usedTemplateContentTooEarlyMap,
                    promises, copy, pc, op, opsLeft, faults >>

\* Every promise of the run has settled and the caller has its result.
AllSettled ==
    /\ copy.state # "pending"
    /\ \A i \in 1..Len(promises) : promises[i].state # "pending"

RunSettled ==
    /\ pc = "awaitAll"
    /\ aggregate.state \in {"fulfilled", "rejected"}
    /\ AllSettled
    /\ reactions = << >>

\* What the run has produced: for every entry that generated, its input path
\* and the number of pages written for it.
Outputs ==
    {[path |-> handles[templateMap[promises[i].entry]].inputPath,
      pages |-> handles[templateMap[promises[i].entry]].writeCount] :
        i \in {j \in 1..Len(promises) : promises[j].value.kind = "pages"}}

\* What prevRun keeps of a full write() run.
RunSummary ==
    IF op = "write" /\ incrementalFile = NoFile
    THEN [op |-> op, paths |-> paths, outputs |-> Outputs,
          writes |-> writeCount - thisRun.writeStart,
          writeCount |-> writeCount, skippedCount |-> skippedCount]
    ELSE NoRun

\* The run is over: its locals are gone, the writer is idle again.
finish ==
    /\ RunSettled
    /\ prevRun' = RunSummary
    /\ thisRun' = NoRun
    /\ trace' = << >>
    /\ pc' = "idle"
    /\ op' = "none"
    /\ paths' = << >>
    /\ idx' = 0
    /\ isIncrementalFileAFullTemplate' = FALSE
    /\ isIncrementalFileAPassthroughCopy' = FALSE
    /\ relevantToDeletions' = {}
    /\ templateMap' = << >>
    /\ usedTemplateContentTooEarlyMap' = << >>
    /\ promises' = << >>
    /\ copy' = NoPromise
    /\ aggregate' = NoAggregate
    /\ classified' = << >>
    /\ lastCreate' = NoCreate
    /\ runStart' = skippedCount
    /\ UNCHANGED << writerVars, reactions, opsLeft, faults, lastCall >>

----
Next ==
    \/ restart
    \/ setVerboseOutput
    \/ setDryRunWriter
    \/ setRunInitialBuild
    \/ setIncrementalFile
    \/ resetIncrementalFile
    \/ callCreateTemplate
    \/ write
    \/ getJSON
    \/ addToTemplateMapBegin
    \/ addToTemplateMapIncrementalDone
    \/ addToTemplateMapLoop
    \/ createTemplateMapEnd
    \/ generateTemplatesLoops
    \/ generateTemplateSettle
    \/ passthroughCopySettle
    \/ promiseAll
    \/ promiseAllReact
    \/ finish

\* One full build on a new writer: no setter is called, no file has changed.
NextFaults ==
    \/ write
    \/ getJSON
    \/ addToTemplateMapBegin
    \/ addToTemplateMapLoop
    \/ createTemplateMapEnd
    \/ generateTemplatesLoops
    \/ generateTemplateSettle
    \/ passthroughCopySettle
    \/ promiseAll
    \/ promiseAllReact
    \/ finish

Spec == Init /\ [][Next]_vars

SpecFaults == InitFaults /\ [][NextFaults]_vars

----
\* Properties of the generation scheduler, checked under SpecFaults.

\* The first-wave tasks that ended with a premature-template-content error.
PrematureTasks ==
    {i \in 1..Len(promises) : promises[i].pass = 1 /\ promises[i].value.kind = "undefined"}

\* The tasks of the second wave for the entry of task i.
SecondTasks(i) ==
    {j \in 1..Len(promises) : promises[j].pass = 2 /\ promises[j].entry = promises[i].entry}

\* The values the caller receives.
Returned == {aggregate.values[j] : j \in 1..Len(aggregate.values)}

\* C1: an entry whose first-wave generation fails with a premature-content
\* error and which would generate on a second attempt gets that second attempt,
\* and the pages of the second attempt are in the result of the run.
C1_RetryContributes ==
    RunSettled =>
        \A i \in PrematureTasks :
            promises[i].retry = "ok" =>
                /\ SecondTasks(i) # {}
                /\ aggregate.state = "fulfilled" =>
                       Pages(promises[i].entry, 2) \in Returned

\* C2: an entry that fails with a premature-content error on the first attempt
\* and on the retry makes the run fail with an EleventyTemplateError of the
\* second pass, and no entry is generated more than twice.
C2_SecondFailureIsFatal ==
    RunSettled =>
        /\ \A i \in PrematureTasks :
              promises[i].retry = "premature" =>
                  /\ aggregate.state = "rejected"
                  /\ \E j \in SecondTasks(i) :
                        /\ promises[j].state = "rejected"
                        /\ promises[j].value = EleventyTemplateError(promises[i].entry, 2)
        /\ \A e \in 1..Len(templateMap) :
              Cardinality({j \in 1..Len(promises) : promises[j].entry = e}) <= 2

\* C3: once generateTemplates has gone through the list of entries to retry
\* (its second loop), every first-wave task has settled.
C3_SecondWaveAfterFirst ==
    pc \in {"returned", "awaitAll"} =>
        \A i \in 1..Len(promises) :
            promises[i].pass = 1 => promises[i].state # "pending"

\* The tasks that rejected, and those that resolved with pages.
RejectedTasks == {i \in 1..Len(promises) : promises[i].state = "rejected"}

GeneratedTasks == {i \in 1..Len(promises) : promises[i].value.kind = "pages"}

\* C4, as stated: when a sibling entry fails with another error, the pages of
\* every entry that generated are still returned to the caller.
C4_PartialResultsReturned ==
    RunSettled /\ RejectedTasks # {} =>
        \A i \in GeneratedTasks : promises[i].value \in Returned

\* C4, amended: when an entry fails with another error the caller receives the
\* rejection alone, an error and no pages, although the other entries were
\* generated and counted in writeCount.
C4_OnlyTheErrorIsReturned ==
    RunSettled /\ RejectedTasks # {} =>
        /\ aggregate.state = "rejected"
        /\ aggregate.values = << >>
        /\ aggregate.error.kind \in {"EleventyTemplateError", "EleventyPassthroughCopyError"}
        /\ writeCount = Cardinality(GeneratedTasks)

C4_Witness ==
    /\ RunSettled
    /\ RejectedTasks # {}
    /\ GeneratedTasks # {}
    /\ aggregate.error.kind = "EleventyTemplateError"

\* C5, as stated: the aggregate is reported as failed by an entry's error only
\* when every generation task has settled.
C5_FailsAfterAllSettle ==
    aggregate.state = "rejected" /\ aggregate.error.kind = "EleventyTemplateError" =>
        \A i \in 1..Len(promises) : promises[i].state # "pending"

\* C5, amended: the aggregate is reported as failed when Promise.all is told of
\* the first rejection, with the error of that promise, whether or not sibling
\* tasks are still pending.
C5_FailsAtFirstRejection ==
    /\ [](aggregate.state = "rejected" =>
            \E j \in 1..Len(Awaited) :
                /\ PromiseOf(Awaited[j]).state = "rejected"
                /\ PromiseOf(Awaited[j]).value = aggregate.error)
    /\ [][(/\ pc = "awaitAll"
           /\ reactions # << >>
           /\ reactions' = Tail(reactions)
           /\ aggregate.state = "pending"
           /\ PromiseOf(Head(reactions)).state = "rejected")
          => (/\ aggregate'.state = "rejected"
              /\ aggregate'.error = PromiseOf(Head(reactions)).value)]_vars

C5_Witness ==
    /\ aggregate.state = "rejected"
    /\ aggregate.error.kind = "EleventyTemplateError"
    /\ \E i \in 1..Len(promises) : promises[i].state = "pending"

\* The passthrough copy of the run has failed.
CopyFailed == copy.state = "rejected"

\* The build set holds an entry for every path with an engine, in the order of
\* the listing (a full run).
BuildSetBuilt ==
    [e \in 1..Len(templateMap) |-> handles[templateMap[e]].inputPath]
        = SelectSeq(paths, hasEngine)

----
\* Properties of the template path cache and of the build set builder, checked
\* under Spec.

\* C6: the cache holds one handle per key; a call for a key that is cached
\* returns the cached handle with wasCached = true, a call for a new key caches
\* what it returns; no handle is ever constructed twice for one path string and
\* no cache slot is ever given another handle.
C6_OneHandlePerKey ==
    /\ [](lastCreate.path # NoFile =>
            /\ lastCreate.wasCached = (lastCreate.before # 0)
            /\ lastCreate.before # 0 => lastCreate.template = lastCreate.before
            /\ lastCreate.after = lastCreate.template)
    /\ [](\A i, j \in 1..Len(handles) :
            handles[i].inputPath = handles[j].inputPath => i = j)
    /\ [][\A k \in PathKeys :
            templatePathCache[k] # 0 => templatePathCache'[k] = templatePathCache[k]]_vars

C6_Witness ==
    /\ pc = "loop"
    /\ incrementalFile # NoFile
    /\ lastCreate.wasCached
    /\ lastCreate.template = lastCreate.before

\* C7, as stated: two strings that name the same file after normalisation never
\* have two handles in the cache.
C7_SameFileSameHandle ==
    \A k1, k2 \in PathKeys :
        /\ stripLeadingDotSlash(k1) = stripLeadingDotSlash(k2)
        /\ templatePathCache[k1] # 0
        /\ templatePathCache[k2] # 0
        => templatePathCache[k1] = templatePathCache[k2]

\* C7, amended: the cache key is the string as it is given.  A cached handle is
\* the handle constructed for exactly that string, so two spellings of one
\* file (with and without the leading "./") have two distinct handles.
C7_KeyIsTheStringGiven ==
    /\ \A k \in PathKeys :
          templatePathCache[k] # 0 => handles[templatePathCache[k]].inputPath = k
    /\ \A k1, k2 \in PathKeys :
          k1 # k2 /\ templatePathCache[k1] # 0 /\ templatePathCache[k2] # 0
          => templatePathCache[k1] # templatePathCache[k2]

C7_Witness ==
    /\ templatePathCache[Dotted(1)] # 0
    /\ templatePathCache[Bare(1)] # 0
    /\ templatePathCache[Dotted(1)] # templatePathCache[Bare(1)]
    /\ lastCreate.path = Bare(1)
    /\ ~lastCreate.wasCached

\* The handle of path before an iteration of the loop: the cached one, or the
\* one the iteration constructs.
HandleBefore(path) ==
    IF templatePathCache[path] # 0 THEN handles[templatePathCache[path]]
    ELSE NewTemplate(path)

\* C8: in an incremental run whose changed file is not a passthrough copy, the
\* iteration for a qualifying path other than the changed one clears the data
\* and the render cache of a relevant handle; of a handle that is not relevant
\* it clears the data cache, leaves the read and the render cache as they were,
\* marks it dry-run-via-incremental and adds exactly one to skippedCount.
C8_IncrementalInvalidation ==
    [][(/\ pc = "loop"
        /\ idx' = idx + 1
        /\ incrementalFile # NoFile
        /\ ~isIncrementalFileAPassthroughCopy
        /\ hasEngine(paths[idx])
        /\ paths[idx] # incrementalFile)
       => LET path == paths[idx]
              old == HandleBefore(path)
              new == handles'[templatePathCache'[path]]
          IN /\ classified'[idx] \in {"relevant", "skipped"}
             /\ classified'[idx] = "relevant" =>
                   /\ ~new.data
                   /\ ~new.render
             /\ classified'[idx] = "skipped" =>
                   /\ ~new.data
                   /\ new.read = old.read
                   /\ new.render = old.render
                   /\ new.dryRunViaIncremental
                   /\ skippedCount' = skippedCount + 1]_vars

\* A handle whose caches a run before has filled is kept as not relevant, and
\* another one, just as full, is invalidated as relevant.
C8_Witness ==
    /\ pc = "loop"
    /\ incrementalFile # NoFile
    /\ ~isIncrementalFileAPassthroughCopy
    /\ \E j, k \in 1..Len(classified) :
          /\ paths[j] # incrementalFile
          /\ paths[k] # incrementalFile
          /\ classified[j] = "skipped"
          /\ handles[templatePathCache[paths[j]]].render
          /\ handles[templatePathCache[paths[j]]].read
          /\ ~handles[templatePathCache[paths[j]]].data
          /\ classified[k] = "relevant"
          /\ handles[templatePathCache[paths[k]]].read
          /\ ~handles[templatePathCache[paths[k]]].render

\* The paths the loop has gone through that qualify and are in the
\* relevant-to-deletions set.
DeletionRelevant ==
    {j \in 1..Len(classified) :
        hasEngine(paths[j]) /\ stripLeadingDotSlash(paths[j]) \in relevantToDeletions}

\* What C9 says of the path at position j: it is not counted as skipped, and
\* (unless it is the changed template, registered before the loop) the loop has
\* cleared its data and render caches.
FullyInvalidated(j) ==
    /\ classified[j] \notin {"skipped", "passthrough"}
    /\ classified[j] # "preRegistered" =>
          /\ templatePathCache[paths[j]] # 0
          /\ ~handles[templatePathCache[paths[j]]].data
          /\ ~handles[templatePathCache[paths[j]]].render

Classified == pc \in {"mapCreated", "returned", "awaitAll"}

CountOf(class) == Cardinality({j \in 1..Len(classified) : classified[j] = class})

Qualifying == {j \in 1..Len(paths) : hasEngine(paths[j])}

\* The paths of the run the passthrough manager says are passthrough copies:
\* the files without a render engine, and the changed file when it is one.
PassthroughAssets ==
    {j \in 1..Len(paths) :
        \/ ~hasEngine(paths[j])
        \/ paths[j] = incrementalFile /\ isIncrementalFileAPassthroughCopy}

\* C10, as stated: the run adds to skippedCount the number of paths classified
\* skip-via-incremental plus the number of paths that are passthrough assets.
C10_SkippedPlusAssets ==
    Classified =>
        skippedCount - runStart = CountOf("skipped") + Cardinality(PassthroughAssets)

\* C10, amended: the run adds to skippedCount the number of paths classified
\* skip-via-incremental, or, when the changed file is a passthrough copy, the
\* number of all qualifying paths (none is then classified skip-via-incremental);
\* a path without an engine adds nothing.
C10_SkippedOrAllQualifying ==
    Classified =>
        /\ skippedCount - runStart =
              IF isIncrementalFileAPassthroughCopy THEN Cardinality(Qualifying)
              ELSE CountOf("skipped")
        /\ isIncrementalFileAPassthroughCopy => CountOf("skipped") = 0

C10_Witness ==
    /\ Classified
    /\ CountOf("skipped") >= 1
    /\ CountOf("relevant") >= 1
    /\ CountOf("noEngine") >= 1
    /\ skippedCount - runStart = CountOf("skipped")

----
\* Properties of the counters over several runs, checked under Spec.

RECURSIVE SumPages(_)
\* The pages of a set of outputs.
SumPages(outs) ==
    IF outs = {} THEN 0
    ELSE LET o == CHOOSE x \in outs : TRUE
         IN o.pages + SumPages(outs \ {o})

\* The second of two full write() runs over the same listing, the second
\* called right after the first (or after the call named by between), has
\* settled.
SecondFullRun(between) ==
    /\ RunSettled
    /\ op = "write"
    /\ incrementalFile = NoFile
    /\ prevRun.op = "write"
    /\ prevRun.paths = paths
    /\ thisRun.follows = between

\* C11, as stated: two full write() runs in succession over unchanged sources
\* yield the same outputs and the same getWriteCount() after each run, and
\* getSkippedCount() is 0 when the second begins.
C11_IdempotentRerun ==
    SecondFullRun("write") =>
        /\ Outputs = prevRun.outputs
        /\ writeCount = prevRun.writeCount
        /\ runStart = 0

\* C11, amended: write() resets no counter, so the second run begins with the
\* counts the first has left and adds its own pages to writeCount; a full run
\* leaves skippedCount as it is.  With isRunInitialBuild true the two runs
\* yield the same outputs and write the same number of pages, and
\* getWriteCount() is the same after each run when restart() is called between
\* them.
C11_RerunAccumulates ==
    /\ SecondFullRun("write") =>
          /\ thisRun.writeStart = prevRun.writeCount
          /\ writeCount = prevRun.writeCount + SumPages(Outputs)
          /\ runStart = prevRun.skippedCount
          /\ skippedCount = prevRun.skippedCount
          /\ isRunInitialBuild =>
                /\ Outputs = prevRun.outputs
                /\ writeCount - thisRun.writeStart = prevRun.writes
    /\ SecondFullRun("restart") /\ isRunInitialBuild =>
          /\ Outputs = prevRun.outputs
          /\ writeCount = prevRun.writes
          /\ runStart = 0

C11_Witness ==
    /\ SecondFullRun("write")
    /\ Len(paths) = MaxTemplates + 1
    /\ Outputs = prevRun.outputs
    /\ prevRun.writes = MaxTemplates
    /\ writeCount = 2 * prevRun.writes

\* C13: restart() sets writeCount and skippedCount to 0, and no other step of
\* the writer (a run of write() or getJSON(), full or incremental, a setter)
\* ever decreases either counter.
C13_ResetOnlyByRestart ==
    /\ [](lastCall = "restart" /\ pc = "idle" => writeCount = 0 /\ skippedCount = 0)
    /\ [][\/ lastCall' = "restart" /\ opsLeft' = opsLeft - 1
          \/ writeCount' >= writeCount /\ skippedCount' >= skippedCount]_vars

\* restart() has been called after a run that wrote pages and skipped entries.
C13_Witness ==
    /\ lastCall = "restart"
    /\ \E i \in 1..Len(handles) : handles[i].writeCount > 0
    /\ \E i \in 1..Len(handles) : handles[i].dryRunViaIncremental
    /\ writeCount = 0
    /\ skippedCount = 0

----
\* Properties of the order of the calls of a run, checked under Spec.

\* The run is incremental and its changed file is a full template.
ChangedFullTemplate == pc # "idle" /\ incrementalFile # NoFile /\ isIncrementalFileAFullTemplate

\* The event is among the first n calls of the run.
Before(n, event) == \E a \in 1..(n - 1) : trace[a] = event

\* The calls in which the loop looks at, or invalidates, another path than the
\* changed one.
OtherPathCalls ==
    {i \in 1..Len(trace) :
        /\ trace[i].call \in {"relevance", "resetCaches"}
        /\ trace[i].path # incrementalFile}

\* C14: when the changed file is a full template, its data cascade is complete
\* (the add is awaited), the relevant-to-deletions set is computed and
\* addToGlobalDependencyGraph is called before the relevance of any other path
\* is evaluated and before the caches of any other handle are reset.
C14_PreRegistrationFirst ==
    ChangedFullTemplate =>
        /\ \A i \in OtherPathCalls :
              /\ Before(i, Event("added", incrementalFile))
              /\ Before(i, Event("setupDependencyGraphChangesForIncrementalFile", incrementalFile))
              /\ Before(i, Event("addToGlobalDependencyGraph", NoFile))
        /\ pc = "loop" =>
              /\ handles[templateMap[1]].inputPath = incrementalFile
              /\ handles[templateMap[1]].data

\* The loop has evaluated the relevance of another template, cached by the run
\* before, after the dependency graph has named a deletion-relevant path.
C14_Witness ==
    /\ ChangedFullTemplate
    /\ pc = "loop"
    /\ relevantToDeletions # {}
    /\ OtherPathCalls # {}
    /\ lastCreate.wasCached
    /\ lastCreate.path # incrementalFile

\* C15: in an incremental run whose changed file is a passthrough copy, whether
\* or not it is also a full template, the build set has no entry, no generation
\* is started and skippedCount grows by the number of paths with an engine.
C15_PassthroughRegeneratesNothing ==
    Classified /\ incrementalFile # NoFile /\ isIncrementalFileAPassthroughCopy =>
        /\ templateMap = << >>
        /\ promises = << >>
        /\ \A i \in 1..Len(trace) : trace[i].call # "generate"
        /\ skippedCount - runStart = Cardinality(Qualifying)

\* The calls of templateMap.add the run has made, and how many of them were for
\* the path.
Adds == SelectSeq(trace, LAMBDA e : e.call = "add")

AddsOf(path) == Len(SelectSeq(Adds, LAMBDA e : e.path = path))

\* C16: a run calls templateMap.add at most once per path.  The changed file,
\* when it is a full template, is added once, before the loop, and the loop
\* passes it over; every other path with an engine is added once, relevant or
\* not, and not at all when the changed file is a passthrough copy.
C16_AddedOncePerPath ==
    /\ \A i, j \in 1..Len(Adds) : Adds[i] = Adds[j] => i = j
    /\ Len(Adds) = Len(templateMap)
    /\ ChangedFullTemplate =>
          /\ AddsOf(incrementalFile) = 1
          /\ handles[templateMap[1]].inputPath = incrementalFile
          /\ \A j \in 1..Len(classified) :
                paths[j] = incrementalFile => classified[j] \in {"preRegistered", "passthrough"}
    /\ Classified =>
          \A j \in Qualifying :
              ~(isIncrementalFileAFullTemplate /\ paths[j] = incrementalFile) =>
                  AddsOf(paths[j]) = IF isIncrementalFileAPassthroughCopy THEN 0 ELSE 1

\* The loop has passed over the changed template and has added every other one.
C16_Witness ==
    /\ Classified
    /\ ChangedFullTemplate
    /\ CountOf("preRegistered") = 1
    /\ CountOf("relevant") + CountOf("skipped") >= 1
    /\ Len(templateMap) = MaxTemplates

----
\* Properties of the handles of a run, checked under Spec.

\* C17: in a full run with isRunInitialBuild false the loop disables the render
\* of every handle it creates (override false) and enables the render of every
\* handle it finds in the cache (override undefined); while isRunInitialBuild
\* is true no step of any run sets a render override.
C17_RenderOverrides ==
    /\ [][(/\ pc = "loop"
           /\ idx' = idx + 1
           /\ incrementalFile = NoFile
           /\ ~isRunInitialBuild
           /\ hasEngine(paths[idx]))
          => LET path == paths[idx]
             IN handles'[templatePathCache'[path]].renderableOverride =
                    IF templatePathCache[path] # 0 THEN "undefined" ELSE "false"]_vars
    /\ [][isRunInitialBuild =>
            \A i \in 1..Len(handles') :
                handles'[i].renderableOverride =
                    IF i <= Len(handles) THEN handles[i].renderableOverride
                    ELSE "undefined"]_vars

\* A full run with isRunInitialBuild false has enabled the render of a handle
\* of the run before and disabled the render of a handle it has created.
C17_Witness ==
    /\ pc = "loop"
    /\ incrementalFile = NoFile
    /\ ~isRunInitialBuild
    /\ Len(templateMap) = 2
    /\ handles[templateMap[1]].renderableOverride = "undefined"
    /\ handles[templateMap[2]].renderableOverride = "false"
    /\ ~lastCreate.wasCached

\* The entries of the build set whose generation has succeeded in this run.
GeneratedEntries == {promises[i].entry : i \in GeneratedTasks}

\* C18: every handle of the build set of a run, cached or new, has the
\* writer's current isDryRun and isVerbose, and has been reset by the run: its
\* write count is 0 until the run generates it.
C18_FlagsAppliedToBuildSet ==
    pc # "idle" =>
        \A e \in 1..Len(templateMap) :
            LET h == handles[templateMap[e]]
            IN /\ h.isDryRun = isDryRun
               /\ h.isVerbose = isVerbose
               /\ h.writeCount = IF e \in GeneratedEntries THEN PagesWritten(h) ELSE 0

\* A handle that wrote a page in the run before is in the build set of a run
\* made after setDryRun(true).
C18_Witness ==
    /\ pc = "mapCreated"
    /\ isDryRun
    /\ Len(handles) = 1
    /\ writeCount = 1
    /\ lastCreate.wasCached
    /\ Len(templateMap) = 1
    /\ handles[templateMap[1]].isDryRun
    /\ handles[templateMap[1]].writeCount = 0

\* The calls that write to the dependency graph.
GraphWrites ==
    {"setupDependencyGraphChangesForIncrementalFile", "addToGlobalDependencyGraph", "cache"}

\* Generation has been started.
GenerationStarted == pc \in {"returned", "awaitAll"}

\* C19: every write of a run to the dependency graph is made before the
\* generation of the first entry is started: the relationships of the run are
\* written and persisted by then, and while the generation tasks run and
\* settle no call is made on the dependency graph.
C19_GraphWrittenBeforeGeneration ==
    /\ [](\A i, j \in 1..Len(trace) :
            trace[i].call \in GraphWrites /\ trace[j].call = "generate" => i < j)
    /\ [](GenerationStarted =>
            /\ Event("addToGlobalDependencyGraph", NoFile) \in Range(trace)
            /\ Event("cache", NoFile) \in Range(trace))
    /\ [][GenerationStarted /\ pc' # "idle" => trace' = trace]_vars

\* The tasks of an incremental run that has written the change of a template
\* to the dependency graph have generated.
C19_Witness ==
    /\ ChangedFullTemplate
    /\ pc = "awaitAll"
    /\ Event("setupDependencyGraphChangesForIncrementalFile", incrementalFile) \in Range(trace)
    /\ Cardinality(GeneratedTasks) = MaxTemplates

----
\* A property of the write counter under concurrent generation, checked under
\* SpecFaults.

\* C20: whatever the order in which the generation tasks complete, writeCount
\* has grown by the sum of getWriteCount() of the entries that have generated,
\* so also when every task has settled; a task that fails, prematurely or
\* for good, leaves writeCount as it is.
C20_WriteCountIsSumOfWrites ==
    /\ [](GenerationStarted => writeCount - thisRun.writeStart = SumPages(Outputs))
    /\ [][GenerationStarted /\ pc' # "idle" =>
            \A i \in 1..Len(promises) :
                /\ promises[i].state = "pending"
                /\ promises'[i].state # "pending"
                /\ promises'[i].value.kind # "pages"
                => writeCount' = writeCount]_vars

\* Every task has settled, the second before the first, and both have written.
C20_Witness ==
    /\ pc = "awaitAll"
    /\ AllSettled
    /\ Cardinality(GeneratedTasks) = 2
    /\ writeCount = 2
    /\ \E a, b \in 1..Len(reactions) : a < b /\ reactions[a] = 2 /\ reactions[b] = 1

====
